---------------------------- MODULE Spec2Model ----------------------------
(***************************************************************************)
(* A model of blackhole/src/main.cpp and blackhole/src/objects.hpp: the    *)
(* start-up sequence of main(), the scene loop, the two GLFW input         *)
(* callbacks, the UV-sphere mesh generator and the BlackHole body.         *)
(*                                                                         *)
(* Numbers.  float and double quantities are modelled exactly:             *)
(*   - angles (yawDeg, pitchDeg) are integers counting tenths of a degree, *)
(*     so sensitivity 0.2f is the integer 2 per pixel;                     *)
(*   - cursor coordinates are whole pixels, times are whole seconds and    *)
(*     positions whole world units;                                        *)
(*   - mass and r_s are exact rationals over arbitrary-size naturals.      *)
(* IEEE rounding of the individual operations is outside the model.        *)
(***************************************************************************)
EXTENDS Integers, Sequences, FiniteSets, TLC

(***************************************************************************)
(* Arbitrary-size naturals: little-endian sequences of base-10000 limbs,   *)
(* without leading zero limbs (zero is the empty sequence).  They carry    *)
(* the products of objects.hpp, which do not fit a machine integer.        *)
(***************************************************************************)
RECURSIVE BigNorm(_)
BigNorm(a) ==
    IF a = <<>> THEN <<>>
    ELSE IF a[Len(a)] = 0 THEN BigNorm(SubSeq(a, 1, Len(a) - 1))
    ELSE a

RECURSIVE Big(_)
Big(n) == IF n = 0 THEN <<>> ELSE <<n % 10000>> \o Big(n \div 10000)

RECURSIVE BigAddC(_, _, _)
BigAddC(a, b, carry) ==
    IF a = <<>> /\ b = <<>>
    THEN IF carry = 0 THEN <<>> ELSE <<carry>>
    ELSE LET x == IF a = <<>> THEN 0 ELSE Head(a)
             y == IF b = <<>> THEN 0 ELSE Head(b)
             s == x + y + carry
             ra == IF a = <<>> THEN <<>> ELSE Tail(a)
             rb == IF b = <<>> THEN <<>> ELSE Tail(b)
         IN  <<s % 10000>> \o BigAddC(ra, rb, s \div 10000)

BigAdd(a, b) == BigAddC(a, b, 0)

RECURSIVE BigMulLimb(_, _, _)
BigMulLimb(a, k, carry) ==
    IF a = <<>>
    THEN IF carry = 0 THEN <<>> ELSE <<carry>>
    ELSE LET p == Head(a) * k + carry
         IN  <<p % 10000>> \o BigMulLimb(Tail(a), k, p \div 10000)

RECURSIVE BigMul(_, _)
BigMul(a, b) ==
    IF b = <<>> \/ a = <<>> THEN <<>>
    ELSE BigNorm(BigAdd(BigMulLimb(a, Head(b), 0), <<0>> \o BigMul(a, Tail(b))))

RECURSIVE BigLessFrom(_, _, _)
BigLessFrom(a, b, i) ==
    IF i = 0 THEN FALSE
    ELSE IF a[i] # b[i] THEN a[i] < b[i]
    ELSE BigLessFrom(a, b, i - 1)

BigLess(a, b) ==
    IF Len(a) # Len(b) THEN Len(a) < Len(b) ELSE BigLessFrom(a, b, Len(a))

RECURSIVE BigPow10(_)
BigPow10(k) == IF k = 0 THEN Big(1) ELSE BigMulLimb(BigPow10(k - 1), 10, 0)

(***************************************************************************)
(* Exact non-negative rationals num/den (not reduced), and the decimal     *)
(* literal  m e k  of the C++ source.                                      *)
(***************************************************************************)
Dec(m, k) ==
    IF k >= 0 THEN [num |-> BigMul(Big(m), BigPow10(k)), den |-> Big(1)]
    ELSE [num |-> Big(m), den |-> BigPow10(0 - k)]

RatMul(a, b) == [num |-> BigMul(a.num, b.num), den |-> BigMul(a.den, b.den)]
RatDiv(a, b) == [num |-> BigMul(a.num, b.den), den |-> BigMul(a.den, b.num)]
RatLess(a, b) == BigLess(BigMul(a.num, b.den), BigMul(b.num, a.den))
RatEq(a, b) == BigMul(a.num, b.den) = BigMul(b.num, a.den)


(***************************************************************************)
(* Vectors of glm: triples of integers.                                    *)
(***************************************************************************)
Vec3(x, y, z) == <<x, y, z>>
VAdd(a, b) == <<a[1] + b[1], a[2] + b[2], a[3] + b[3]>>
VSub(a, b) == <<a[1] - b[1], a[2] - b[2], a[3] - b[3]>>
VScale(a, k) == <<a[1] * k, a[2] * k, a[3] * k>>
Cross(a, b) ==
    <<a[2] * b[3] - a[3] * b[2], a[3] * b[1] - a[1] * b[3], a[1] * b[2] - a[2] * b[1]>>
Sgn(k) == IF k > 0 THEN 1 ELSE IF k < 0 THEN -1 ELSE 0
\* glm::normalize, on the axis-aligned vectors the program normalizes
NormalizeAxis(a) == <<Sgn(a[1]), Sgn(a[2]), Sgn(a[3])>>

(***************************************************************************)
(* buildSphere (main.cpp 49-115).  A float of the vertex buffer is kept as *)
(* the term that computes it: the component, phi = (i/stacks)*pi and       *)
(* theta = (j/slices)*2pi as the fractions <<i, stacks>>, <<j, slices>>.   *)
(***************************************************************************)
SphereCoord(comp, i, stacks, j, slices) ==
    [comp |-> comp, phi |-> <<i, stacks>>, theta |-> <<j, slices>>]

\* lines 61-72: position x, y, z, then the normal x, y, z
SphereVertex(i, stacks, j, slices) ==
    LET x == SphereCoord("sin(phi)*cos(theta)", i, stacks, j, slices)
        y == SphereCoord("cos(phi)", i, stacks, j, slices)
        z == SphereCoord("sin(phi)*sin(theta)", i, stacks, j, slices)
    IN  <<x, y, z, x, y, z>>

\* lines 57-73: for (j = 0; j <= slices; j++), here for j in lo..hi; the range
\* is halved so that the evaluation depth stays logarithmic
RECURSIVE VertexSliceLoop(_, _, _, _, _)
VertexSliceLoop(i, lo, hi, stacks, slices) ==
    IF lo > hi THEN <<>>
    ELSE IF lo = hi THEN SphereVertex(i, stacks, lo, slices)
    ELSE LET mid == (lo + hi) \div 2
         IN  VertexSliceLoop(i, lo, mid, stacks, slices)
                 \o VertexSliceLoop(i, mid + 1, hi, stacks, slices)

\* lines 53-74: for (i = 0; i <= stacks; i++), here for i in lo..hi
RECURSIVE VertexStackLoop(_, _, _, _)
VertexStackLoop(lo, hi, stacks, slices) ==
    IF lo > hi THEN <<>>
    ELSE IF lo = hi THEN VertexSliceLoop(lo, 0, slices, stacks, slices)
    ELSE LET mid == (lo + hi) \div 2
         IN  VertexStackLoop(lo, mid, stacks, slices)
                 \o VertexStackLoop(mid + 1, hi, stacks, slices)

\* a faulty variant of the quad: rows taken to be slices vertices long
QuadIndicesNarrowRow(i, j, slices) ==
    LET a == i * slices + j
        b == a + slices
    IN  <<a, b, a + 1, b, b + 1, a + 1>>

\* lines 78-87: the two triangles of quad (i, j)
QuadIndices(i, j, slices) ==
    LET a == i * (slices + 1) + j
        b == a + slices + 1
    IN  <<a, b, a + 1, b, b + 1, a + 1>>

\* lines 77-88: for (j = 0; j < slices; j++), here for j in lo..hi
RECURSIVE IndexSliceLoop(_, _, _, _)
IndexSliceLoop(i, lo, hi, slices) ==
    IF lo > hi THEN <<>>
    ELSE IF lo = hi THEN QuadIndices(i, lo, slices)
    ELSE LET mid == (lo + hi) \div 2
         IN  IndexSliceLoop(i, lo, mid, slices) \o IndexSliceLoop(i, mid + 1, hi, slices)

\* lines 76-89: for (i = 0; i < stacks; i++), here for i in lo..hi
RECURSIVE IndexStackLoop(_, _, _, _)
IndexStackLoop(lo, hi, stacks, slices) ==
    IF lo > hi THEN <<>>
    ELSE IF lo = hi THEN IndexSliceLoop(lo, 0, slices - 1, slices)
    ELSE LET mid == (lo + hi) \div 2
         IN  IndexStackLoop(lo, mid, stacks, slices)
                 \o IndexStackLoop(mid + 1, hi, stacks, slices)

\* a faulty variant of the vertex loops: i < stacks in line 53
SphereVertsOpenStack(stacks, slices) == VertexStackLoop(0, stacks - 1, stacks, slices)

SphereVerts(stacks, slices) == VertexStackLoop(0, stacks, stacks, slices)
SphereIndices(stacks, slices) == IndexStackLoop(0, stacks - 1, stacks, slices)

\* line 91: indexCount = (GLsizei)indices.size(), with the two vectors it was built from
buildSphere(stacks, slices) ==
    LET verts == SphereVerts(stacks, slices)
        indices == SphereIndices(stacks, slices)
    IN  [verts |-> verts, indices |-> indices, indexCount |-> Len(indices)]

(***************************************************************************)
(* objects.hpp: the constants and the BlackHole constructor.               *)
(***************************************************************************)
G == Dec(66743, -15)
c == Dec(299792458, 0)

\* a faulty variant of the radius: divided by c, not by c * c
SchwarzschildRadiusOverC(m) == RatDiv(RatMul(RatMul(Dec(2, 0), G), m), c)

\* objects.hpp 12: r_s((2.0 * G * m) / (c * c))
SchwarzschildRadius(m) == RatDiv(RatMul(RatMul(Dec(2, 0), G), m), RatMul(c, c))

\* objects.hpp 11-12
BlackHoleCtor(pos, m) == [position |-> pos, mass |-> m, r_s |-> SchwarzschildRadius(m)]

(***************************************************************************)
(* The globals of main.cpp and their initial values (lines 118-133).       *)
(***************************************************************************)
cameraFront == Vec3(0, 0, -1)
cameraUp == Vec3(0, 1, 0)
yawDeg0 == -900
pitchDeg0 == 150
sensitivity == 2
moveSpeed == 3
PitchMax == 890
PitchMin == -890
Stacks == 64
Slices == 64

NoValue == "none"

VARIABLES
    pc,               \* where main() is
    env,              \* what the windowing library and the GL driver answer
    glfwInitialized,  \* the library's state after glfwInit / glfwTerminate
    window,           \* main's window: "window", or "NULL"
    glLoaded,         \* whether glad filled in the GL entry points
    callbacksSet,     \* whether lines 237-238 registered the two callbacks
    console,          \* what was written to std::cerr
    exitStatus,       \* -1 while running, else the status the process ended with
    program,          \* static GLuint program
    indexCount,       \* static GLsizei indexCount
    projection, view, \* static mat4 projection, view
    cameraPos,        \* the flying camera
    target, distanceToTarget,
    yawDeg, pitchDeg, \* the orbit camera, in tenths of a degree
    dragging, lastX, lastY,
    lastTime,
    shouldClose,      \* the window's close flag
    bh,               \* main's BlackHole
    glDraw,           \* the arguments of the last draw call (uniforms, count)
    frameOps,         \* the steps the current iteration of the loop has done
    terminateCalls,   \* how often glfwTerminate was called
    pressX, dragBase, \* x at the press of the open drag; travel of the closed drags
    massArg,          \* the mass handed to the BlackHole constructor
    sphereArgs, mesh  \* buildSphere's arguments and the vectors it built

vars ==
    <<pc, env, glfwInitialized, window, glLoaded, callbacksSet, console, exitStatus,
      program, indexCount, projection, view, cameraPos, target, distanceToTarget,
      yawDeg, pitchDeg, dragging, lastX, lastY, lastTime, shouldClose, bh, glDraw,
      frameOps, terminateCalls, pressX, dragBase, massArg, sphereArgs, mesh>>

platformVars == <<env, glfwInitialized, window, glLoaded, callbacksSet>>
orbitVars == <<target, distanceToTarget, yawDeg, pitchDeg>>
dragVars == <<dragging, lastX, lastY>>
historyVars == <<pressX, dragBase>>
probeVars == <<massArg, sphereArgs, mesh>>

(***************************************************************************)
(* Shader helpers (lines 19-43).  vsOk, fsOk, linkOk are the driver's      *)
(* answers.                                                                *)
(***************************************************************************)
\* lines 19-31: the shader is returned whether or not it compiled
compileShader(type, ok) ==
    [shader |-> type, log |-> IF ok THEN <<>> ELSE <<"Shader error">>]

\* lines 33-43: the link status is never read
makeProgram(vsOk, fsOk, linkOk) ==
    LET v == compileShader("GL_VERTEX_SHADER", vsOk)
        f == compileShader("GL_FRAGMENT_SHADER", fsOk)
    IN  [handle |-> [program |-> 1, linked |-> vsOk /\ fsOk /\ linkOk],
         log |-> v.log \o f.log]

(***************************************************************************)
(* Cameras and drawing.                                                    *)
(***************************************************************************)
\* an eye position: the point from - dir(yaw, pitch) * distance of line 203; a
\* plain point is one at distance 0 from itself
EyeAt(from, yaw, pitch, dist) ==
    [from |-> from, dir |-> [yaw |-> yaw, pitch |-> pitch], distance |-> dist]

LookAt(eye, center, up) == [eye |-> eye, center |-> center, up |-> up]

\* line 278
Perspective == [fovyDeg |-> 60, aspect |-> <<800, 600>>, near |-> <<1, 10>>, far |-> 100]

\* lines 135-156; keys is the set of keys glfwGetKey reports pressed
processMovement(pos, keys, dt) ==
    LET v == moveSpeed * dt
        p1 == IF "W" \in keys THEN VAdd(pos, VScale(cameraFront, v)) ELSE pos
        p2 == IF "S" \in keys THEN VSub(p1, VScale(cameraFront, v)) ELSE p1
        right == NormalizeAxis(Cross(cameraFront, cameraUp))
        p3 == IF "D" \in keys THEN VAdd(p2, VScale(right, v)) ELSE p2
        p4 == IF "A" \in keys THEN VSub(p3, VScale(right, v)) ELSE p3
        p5 == IF "SPACE" \in keys THEN VAdd(p4, VScale(cameraUp, v)) ELSE p4
        p6 == IF "LEFT_SHIFT" \in keys THEN VSub(p5, VScale(cameraUp, v)) ELSE p5
    IN  p6

\* a faulty variant of the button callback: line 164 is missing, the anchor
\* is not taken at the press
mouse_button_no_anchor(dr, lx, ly, button, action, cx, cy) ==
    IF button = "LEFT"
    THEN [dragging |-> (action = "PRESS"), lastX |-> lx, lastY |-> ly]
    ELSE [dragging |-> dr, lastX |-> lx, lastY |-> ly]

\* lines 158-169; cx, cy is what glfwGetCursorPos returns
mouse_button_callback(dr, lx, ly, button, action, cx, cy) ==
    IF button = "LEFT"
    THEN IF action = "PRESS" THEN [dragging |-> TRUE, lastX |-> cx, lastY |-> cy]
         ELSE IF action = "RELEASE" THEN [dragging |-> FALSE, lastX |-> lx, lastY |-> ly]
         ELSE [dragging |-> dr, lastX |-> lx, lastY |-> ly]
    ELSE [dragging |-> dr, lastX |-> lx, lastY |-> ly]

\* a faulty variant of the clamp: the test of line 189 is missing
ClampPitchUpperOnly(p) == IF p > PitchMax THEN PitchMax ELSE p

\* lines 186-190
ClampPitch(p) ==
    LET q == IF p > PitchMax THEN PitchMax ELSE p
    IN  IF q < PitchMin THEN PitchMin ELSE q

\* a faulty variant of the cursor callback: the early return of lines 174-175
\* is missing
cursor_position_always(dr, lx, ly, yaw, pitch, xpos, ypos) ==
    [lastX |-> xpos, lastY |-> ypos,
     yawDeg |-> yaw + (xpos - lx) * sensitivity,
     pitchDeg |-> ClampPitchUpperOnly(
                      IF pitch - (ypos - ly) * sensitivity < PitchMin THEN PitchMin
                      ELSE pitch - (ypos - ly) * sensitivity)]

\* lines 171-191
cursor_position_callback(dr, lx, ly, yaw, pitch, xpos, ypos) ==
    IF ~dr
    THEN [lastX |-> lx, lastY |-> ly, yawDeg |-> yaw, pitchDeg |-> pitch]
    ELSE LET dx == xpos - lx
             dy == ypos - ly
         IN  [lastX |-> xpos, lastY |-> ypos,
              yawDeg |-> yaw + dx * sensitivity,
              pitchDeg |-> ClampPitch(pitch - dy * sensitivity)]

\* lines 193-205: the eye is target - dir * distanceToTarget, dir the unit vector
\* of the two angles
computeOrbitView(yaw, pitch, tgt, dist) ==
    LookAt(EyeAt(tgt, yaw, pitch, dist), tgt, Vec3(0, 1, 0))

\* a faulty variant of the frame's view: line 292 is missing
FrameViewFlying(flyView, orbitView) == flyView

\* lines 291-292: view is assigned twice, the second assignment stands
FrameView(flyView, orbitView) == orbitView

\* lines 207-223
BlackHoleDraw(b, proj, vw, prog, count) ==
    LET model == [translate |-> b.position, scale |-> RatMul(b.r_s, Dec(1, -4))]
    IN  [program |-> prog, uMVP |-> <<proj, vw, model>>, uModel |-> model,
         uLightDir |-> <<-5, -10, -3>>, count |-> count]

(***************************************************************************)
(* Bounds and the inputs the environment may deliver.                      *)
(***************************************************************************)
MaxTime == 1        \* the clock stops advancing here
MaxTurn == 400      \* a cursor move is delivered only while |yaw - yaw0| stays below
MaxStacks == 8
MaxSlices == 8
CursorPoints == {<<0, 0>>, <<200, 520>>, <<400, 0>>}
Dts == {0, 1}
KeyCombos == {{}, {"W", "D", "SPACE"}, {"S", "A", "LEFT_SHIFT"}, {"ESCAPE"}}
Buttons == {"LEFT", "RIGHT"}
ButtonActions == {"PRESS", "RELEASE"}
Masses == {Dec(5, 30), Dec(1, 30), Dec(4, 30), Dec(6, 30), Dec(5972, 21), Dec(5, -1)}

\* The environment of one run: the answers of the windowing library and of the
\* GL driver, and the input devices that deliver events.  There is no window
\* without the library, no GL without a window, no link without both shaders.
PlatformAnswers ==
    {e \in [glfw : BOOLEAN, window : BOOLEAN, gl : BOOLEAN,
            vs : BOOLEAN, fs : BOOLEAN, link : BOOLEAN,
            mouse : BOOLEAN, keyboard : BOOLEAN] :
        /\ e.window => e.glfw
        /\ e.gl => e.window
        /\ e.link => e.vs /\ e.fs}

AllUp(e) == e.glfw /\ e.window /\ e.gl /\ e.vs /\ e.fs /\ e.link

\* the runs that are explored: a start-up that fails is explored once (nothing
\* after it depends on shaders or devices), a shader failure with the keyboard
\* alone, a clean start-up with both devices
Environments ==
    {e \in PlatformAnswers :
        /\ ~e.gl => e.vs /\ e.fs /\ e.link /\ ~e.mouse /\ ~e.keyboard
        /\ e.gl /\ ~AllUp(e) => ~e.mouse /\ e.keyboard
        /\ AllUp(e) => e.mouse /\ e.keyboard}

Abs(k) == IF k < 0 THEN 0 - k ELSE k

(***************************************************************************)
(* The state at the entry of main().                                       *)
(***************************************************************************)
InitGlobals ==
    /\ glfwInitialized = FALSE
    /\ window = "NULL"
    /\ glLoaded = FALSE
    /\ callbacksSet = FALSE
    /\ console = <<>>
    /\ exitStatus = -1
    /\ program = NoValue
    /\ indexCount = 0
    /\ projection = NoValue
    /\ view = NoValue
    /\ cameraPos = Vec3(0, 0, 5)
    /\ target = Vec3(0, 0, 0)
    /\ distanceToTarget = 5
    /\ yawDeg = yawDeg0
    /\ pitchDeg = pitchDeg0
    /\ dragging = FALSE
    /\ lastX = 0
    /\ lastY = 0
    /\ lastTime = 0
    /\ shouldClose = FALSE
    /\ bh = NoValue
    /\ glDraw = NoValue
    /\ frameOps = <<>>
    /\ terminateCalls = 0
    /\ pressX = 0
    /\ dragBase = 0
    /\ mesh = NoValue

Init ==
    /\ InitGlobals
    /\ pc = "glfwInit"
    /\ env \in Environments
    /\ massArg = Dec(5, 30)
    /\ sphereArgs = <<Stacks, Slices>>

(***************************************************************************)
(* main(), lines 226-281: start-up.  No return value is checked.           *)
(***************************************************************************)
\* a call through a null pointer: the process is killed by the signal
Crash ==
    /\ pc' = "crashed"
    /\ exitStatus' = 139

\* lines 227-231
GlfwInit ==
    /\ pc = "glfwInit"
    /\ glfwInitialized' = env.glfw
    /\ pc' = "createWindow"
    /\ UNCHANGED <<env, window, glLoaded, callbacksSet, console, exitStatus, program,
                   indexCount, projection, view, cameraPos, orbitVars, dragVars, lastTime,
                   shouldClose, bh, glDraw, frameOps, terminateCalls, historyVars,
                   probeVars>>

\* lines 233-235
CreateWindow ==
    /\ pc = "createWindow"
    /\ window' = IF glfwInitialized /\ env.window THEN "window" ELSE "NULL"
    /\ pc' = "loadGL"
    /\ UNCHANGED <<env, glfwInitialized, glLoaded, callbacksSet, console, exitStatus,
                   program, indexCount, projection, view, cameraPos, orbitVars, dragVars,
                   lastTime, shouldClose, bh, glDraw, frameOps, terminateCalls,
                   historyVars, probeVars>>

\* line 236: without a current context the loader finds no entry point
LoadGL ==
    /\ pc = "loadGL"
    /\ glLoaded' = (window # "NULL" /\ env.gl)
    /\ pc' = "setCallbacks"
    /\ UNCHANGED <<env, glfwInitialized, window, callbacksSet, console, exitStatus,
                   program, indexCount, projection, view, cameraPos, orbitVars, dragVars,
                   lastTime, shouldClose, bh, glDraw, frameOps, terminateCalls,
                   historyVars, probeVars>>

\* lines 237-238: with a null window the library either rejects the call (it
\* is not initialized) or writes through the null pointer
SetCallbacks ==
    /\ pc = "setCallbacks"
    /\ \/ /\ window # "NULL"
          /\ callbacksSet' = TRUE
          /\ pc' = "glEnable"
          /\ UNCHANGED exitStatus
       \/ /\ window = "NULL"
          /\ ~glfwInitialized
          /\ callbacksSet' = FALSE
          /\ pc' = "glEnable"
          /\ UNCHANGED exitStatus
       \/ /\ window = "NULL"
          /\ Crash
          /\ UNCHANGED callbacksSet
    /\ UNCHANGED <<env, glfwInitialized, window, glLoaded, console, program,
                   indexCount, projection, view, cameraPos, orbitVars, dragVars,
                   lastTime, shouldClose, bh, glDraw, frameOps, terminateCalls,
                   historyVars, probeVars>>

\* line 239: glEnable is a pointer glad filled in, or left null
GlEnable ==
    /\ pc = "glEnable"
    /\ \/ /\ glLoaded
          /\ pc' = "makeProgram"
          /\ UNCHANGED exitStatus
       \/ /\ ~glLoaded
          /\ Crash
    /\ UNCHANGED <<platformVars, console, program, indexCount, projection, view,
                   cameraPos, orbitVars, dragVars, lastTime, shouldClose, bh, glDraw,
                   frameOps, terminateCalls, historyVars, probeVars>>

\* line 275
MakeProgram ==
    /\ pc = "makeProgram"
    /\ LET made == makeProgram(env.vs, env.fs, env.link)
       IN  /\ program' = made.handle
           /\ console' = console \o made.log
    /\ pc' = "buildSphere"
    /\ UNCHANGED <<platformVars, exitStatus, indexCount, projection, view, cameraPos,
                   orbitVars, dragVars, lastTime, shouldClose, bh, glDraw, frameOps,
                   terminateCalls, historyVars, probeVars>>

\* line 276: buildSphere(64, 64); the two vectors die with the call
BuildSphere ==
    /\ pc = "buildSphere"
    /\ indexCount' = buildSphere(sphereArgs[1], sphereArgs[2]).indexCount
    /\ pc' = "matrices"
    /\ UNCHANGED <<platformVars, console, exitStatus, program, projection, view,
                   cameraPos, orbitVars, dragVars, lastTime, shouldClose, bh, glDraw,
                   frameOps, terminateCalls, historyVars, probeVars>>

\* lines 278-279
SetupMatrices ==
    /\ pc = "matrices"
    /\ projection' = Perspective
    /\ view' = LookAt(EyeAt(Vec3(0, 0, 5), 0, 0, 0), Vec3(0, 0, 0), Vec3(0, 1, 0))
    /\ pc' = "construct"
    /\ UNCHANGED <<platformVars, console, exitStatus, program, indexCount, cameraPos,
                   orbitVars, dragVars, lastTime, shouldClose, bh, glDraw, frameOps,
                   terminateCalls, historyVars, probeVars>>

\* line 281
Construct ==
    /\ pc = "construct"
    /\ bh' = BlackHoleCtor(Vec3(0, 0, 0), massArg)
    /\ pc' = "loop"
    /\ UNCHANGED <<platformVars, console, exitStatus, program, indexCount, projection,
                   view, cameraPos, orbitVars, dragVars, lastTime, shouldClose, glDraw,
                   frameOps, terminateCalls, historyVars, probeVars>>

(***************************************************************************)
(* main(), lines 283-304: the scene loop.  The callbacks run only inside   *)
(* glfwPollEvents, so one iteration up to the poll is one step.            *)
(***************************************************************************)
\* a faulty variant of the loop condition: the close flag is not read
LoopConditionIgnoresFlag(closeFlag) == TRUE

\* line 283
LoopCondition(closeFlag) == ~closeFlag

\* lines 289-290
EscapeCheck(closeFlag, keys) == IF "ESCAPE" \in keys THEN TRUE ELSE closeFlag

\* the steps of lines 284-298, in order
FrameSteps(keys) ==
    <<"processMovement">>
        \o (IF "ESCAPE" \in keys THEN <<"setShouldClose">> ELSE <<>>)
        \o <<"view", "clear", "draw", "swap">>

\* lines 283-298: now is what glfwGetTime returns, keys what glfwGetKey reports
Tick(now, keys) ==
    /\ pc = "loop"
    /\ LoopCondition(shouldClose)
    /\ now <= MaxTime
    /\ LET dt == now - lastTime
           pos == processMovement(cameraPos, keys, dt)
           flyView == LookAt(EyeAt(pos, 0, 0, 0), VAdd(pos, cameraFront), cameraUp)
           orbitView == computeOrbitView(yawDeg, pitchDeg, target, distanceToTarget)
       IN  /\ lastTime' = now
           /\ cameraPos' = pos
           /\ shouldClose' = EscapeCheck(shouldClose, keys)
           /\ view' = FrameView(flyView, orbitView)
           /\ glDraw' = BlackHoleDraw(bh, projection, view', program, indexCount)
    /\ frameOps' = FrameSteps(keys)
    /\ pc' = "poll"
    /\ UNCHANGED <<platformVars, console, exitStatus, program, indexCount, projection,
                   orbitVars, dragVars, bh, terminateCalls, historyVars, probeVars>>

\* line 299, one mouse button event: lines 158-169
MouseButton(button, action, cx, cy) ==
    /\ pc = "poll"
    /\ callbacksSet
    /\ env.mouse
    /\ LET r == mouse_button_callback(dragging, lastX, lastY, button, action, cx, cy)
       IN  /\ dragging' = r.dragging
           /\ lastX' = r.lastX
           /\ lastY' = r.lastY
    /\ IF button = "LEFT"
       THEN /\ dragBase' = IF dragging THEN dragBase + (lastX - pressX) ELSE dragBase
            /\ pressX' = IF action = "PRESS" THEN cx ELSE 0
       ELSE UNCHANGED historyVars
    /\ UNCHANGED <<pc, platformVars, console, exitStatus, program, indexCount, projection,
                   view, cameraPos, orbitVars, lastTime, shouldClose, bh, glDraw,
                   frameOps, terminateCalls, probeVars>>

\* line 299, one cursor event: lines 171-191
CursorPos(xpos, ypos) ==
    /\ pc = "poll"
    /\ callbacksSet
    /\ env.mouse
    /\ LET r == cursor_position_callback(dragging, lastX, lastY, yawDeg, pitchDeg,
                                         xpos, ypos)
       IN  /\ Abs(r.yawDeg - yawDeg0) <= MaxTurn
           /\ lastX' = r.lastX
           /\ lastY' = r.lastY
           /\ yawDeg' = r.yawDeg
           /\ pitchDeg' = r.pitchDeg
    /\ UNCHANGED <<pc, platformVars, console, exitStatus, program, indexCount, projection,
                   view, cameraPos, target, distanceToTarget, dragging, lastTime,
                   shouldClose, bh, glDraw, frameOps, terminateCalls, historyVars,
                   probeVars>>

\* line 299, a close request: the library sets the window's close flag
WindowClose ==
    /\ pc = "poll"
    /\ shouldClose' = TRUE
    /\ UNCHANGED <<pc, platformVars, console, exitStatus, program, indexCount, projection,
                   view, cameraPos, orbitVars, dragVars, lastTime, bh, glDraw, frameOps,
                   terminateCalls, historyVars, probeVars>>

\* line 299 returns
PollReturn ==
    /\ pc = "poll"
    /\ frameOps' = Append(frameOps, "poll")
    /\ pc' = "loop"
    /\ UNCHANGED <<platformVars, console, exitStatus, program, indexCount, projection,
                   view, cameraPos, orbitVars, dragVars, lastTime, shouldClose, bh, glDraw,
                   terminateCalls, historyVars, probeVars>>

\* line 283, the condition fails
LoopExit ==
    /\ pc = "loop"
    /\ ~LoopCondition(shouldClose)
    /\ pc' = "terminate"
    /\ UNCHANGED <<platformVars, console, exitStatus, program, indexCount, projection,
                   view, cameraPos, orbitVars, dragVars, lastTime, shouldClose, bh, glDraw,
                   frameOps, terminateCalls, historyVars, probeVars>>

\* lines 302-303
Terminate ==
    /\ pc = "terminate"
    /\ glfwInitialized' = FALSE
    /\ terminateCalls' = terminateCalls + 1
    /\ exitStatus' = 0
    /\ pc' = "done"
    /\ UNCHANGED <<env, window, glLoaded, callbacksSet, console, program, indexCount,
                   projection, view, cameraPos, orbitVars, dragVars, lastTime, shouldClose,
                   bh, glDraw, frameOps, historyVars, probeVars>>

Startup ==
    \/ GlfwInit
    \/ CreateWindow
    \/ LoadGL
    \/ SetCallbacks
    \/ GlEnable
    \/ MakeProgram
    \/ BuildSphere
    \/ SetupMatrices
    \/ Construct

\* what can happen once the loop is entered, for given sets of inputs
RunningWith(points, combos, dts) ==
    \/ \E d \in dts, keys \in (IF env.keyboard THEN combos ELSE {{}}) :
           Tick(lastTime + d, keys)
    \/ \E b \in Buttons, a \in ButtonActions, p \in points :
           MouseButton(b, a, p[1], p[2])
    \/ \E p \in points : CursorPos(p[1], p[2])
    \/ WindowClose
    \/ PollReturn
    \/ LoopExit
    \/ Terminate

Next == Startup \/ RunningWith(CursorPoints, KeyCombos, Dts)

Spec == Init /\ [][Next]_vars

(***************************************************************************)
(* buildSphere as a function of its arguments: one call, whose vectors are *)
(* kept in mesh.                                                           *)
(***************************************************************************)
InitSphere ==
    /\ InitGlobals
    /\ pc = "buildSphere"
    /\ env \in {e \in Environments : AllUp(e)}
    /\ massArg = Dec(5, 30)
    /\ sphereArgs \in (1..MaxStacks) \X (1..MaxSlices)

\* lines 49-91
BuildSphereCall ==
    /\ pc = "buildSphere"
    /\ mesh' = buildSphere(sphereArgs[1], sphereArgs[2])
    /\ indexCount' = mesh'.indexCount
    /\ pc' = "built"
    /\ UNCHANGED <<platformVars, console, exitStatus, program, projection, view,
                   cameraPos, orbitVars, dragVars, lastTime, shouldClose, bh, glDraw,
                   frameOps, terminateCalls, historyVars, massArg, sphereArgs>>

SpecSphere == InitSphere /\ [][BuildSphereCall]_vars

(***************************************************************************)
(* The program with the mass handed to the constructor drawn from Masses.  *)
(***************************************************************************)
BodyPoints == {<<0, 0>>, <<200, 520>>}
BodyKeyCombos == {{}, {"W", "D", "SPACE"}, {"ESCAPE"}}

InitBody ==
    /\ InitGlobals
    /\ pc = "glfwInit"
    /\ env \in {e \in Environments : AllUp(e)}
    /\ massArg \in Masses
    /\ sphereArgs = <<Stacks, Slices>>

NextBody == Startup \/ RunningWith(BodyPoints, BodyKeyCombos, Dts)

SpecBody == InitBody /\ [][NextBody]_vars

(***************************************************************************)
(* The properties.                                                         *)
(***************************************************************************)
PitchRange == PitchMin..PitchMax

\* main's BlackHole exists; a frame has been drawn
Constructed == pc \in {"loop", "poll", "terminate", "done"}
FrameDrawn == frameOps # <<>>

\* C1: in every reachable state the pitch of the orbit camera lies in
\* [-89, 89] degrees, as the cursor callback leaves it and as computeOrbitView
\* read it for the last frame drawn.
C1_PitchInRange ==
    /\ pitchDeg \in PitchRange
    /\ FrameDrawn => glDraw.uMVP[2].eye.dir.pitch \in PitchRange

\* a drag was clamped at the lower end, and a frame was drawn with that pitch
C1_ClampedLow ==
    /\ pitchDeg = PitchMin
    /\ dragging
    /\ FrameDrawn
    /\ glDraw.uMVP[2].eye.dir.pitch = PitchMin

\* C9: yaw and pitch change only in a cursor event that arrives while the
\* left button is held; a cursor event while not dragging, a button event, and
\* an iteration of the loop with its keyboard movement leave yaw, pitch, target
\* and distance alone; a button other than the left one leaves the drag flag
\* and the anchor alone.
C9_CameraMutatedOnlyByDrag ==
    [][/\ (yawDeg' # yawDeg \/ pitchDeg' # pitchDeg)
            => dragging /\ \E p \in CursorPoints : CursorPos(p[1], p[2])
       /\ target' = target
       /\ distanceToTarget' = distanceToTarget
       /\ (~dragging /\ \E p \in CursorPoints : CursorPos(p[1], p[2]))
            => UNCHANGED <<orbitVars, dragVars>>
       /\ (\E b \in Buttons, a \in ButtonActions, p \in CursorPoints :
               MouseButton(b, a, p[1], p[2]))
            => UNCHANGED orbitVars
       /\ (\E a \in ButtonActions, p \in CursorPoints : MouseButton("RIGHT", a, p[1], p[2]))
            => UNCHANGED dragVars
       /\ (\E d \in Dts, keys \in KeyCombos : Tick(lastTime + d, keys))
            => UNCHANGED <<orbitVars, dragVars>>
      ]_vars

\* a drag has turned the camera, and the keyboard has moved the flying camera
C9_Dragged ==
    /\ yawDeg # yawDeg0
    /\ pitchDeg # pitchDeg0
    /\ ~dragging
    /\ cameraPos # Vec3(0, 0, 5)

\* C10: yaw is its initial value plus 0.2 degrees per pixel of the sum, over
\* the drags, of (x of the drag's last move - x at the drag's press): cursor
\* travel with the button released does not count, nor does the way a drag is
\* split into moves.
C10_YawIsSumOfDrags ==
    yawDeg = yawDeg0 + sensitivity * (dragBase + (IF dragging THEN lastX - pressX ELSE 0))

\* a second drag is under way, at a press position other than where the first
\* drag ended
C10_SecondDrag ==
    /\ dragging
    /\ dragBase # 0
    /\ lastX # pressX
    /\ yawDeg = yawDeg0

\* C7: the view of every draw call is the orbit view of the angles, target and
\* distance of that iteration, whatever the keys, the time step and the flying
\* camera are.
C7_DrawUsesOrbitView ==
    [][(pc = "loop" /\ pc' = "poll")
          => /\ view' = computeOrbitView(yawDeg, pitchDeg, target, distanceToTarget)
             /\ glDraw' = BlackHoleDraw(bh, projection,
                              computeOrbitView(yawDeg, pitchDeg, target, distanceToTarget),
                              program, indexCount)
      ]_vars

\* a frame drawn after a drag, with the flying camera moved
C7_DrawnAfterDragAndMove ==
    /\ FrameDrawn
    /\ glDraw.uMVP[2].eye.dir.yaw # yawDeg0
    /\ cameraPos # Vec3(0, 0, 5)
    /\ frameOps = <<"processMovement", "view", "clear", "draw", "swap">>

\* C2: for stacks m >= 1 and slices n >= 1 buildSphere emits (m+1)*(n+1)
\* vertices of 6 floats each, the position and then the normal, and 6*m*n
\* index entries, and indexCount is 6*m*n afterwards; m = n = 2 gives 9 vertices
\* and 24 indices.
C2_SphereCounts ==
    pc = "built" =>
        LET m == sphereArgs[1]
            n == sphereArgs[2]
            nVerts == (m + 1) * (n + 1)
        IN  /\ Len(mesh.verts) = 6 * nVerts
            /\ \A k \in 0..(nVerts - 1) :
                   /\ mesh.verts[6 * k + 1].comp = "sin(phi)*cos(theta)"
                   /\ mesh.verts[6 * k + 2].comp = "cos(phi)"
                   /\ mesh.verts[6 * k + 3].comp = "sin(phi)*sin(theta)"
                   /\ SubSeq(mesh.verts, 6 * k + 4, 6 * k + 6)
                          = SubSeq(mesh.verts, 6 * k + 1, 6 * k + 3)
                   /\ mesh.verts[6 * k + 1].phi = <<k \div (n + 1), m>>
                   /\ mesh.verts[6 * k + 1].theta = <<k % (n + 1), n>>
            /\ Len(mesh.indices) = 6 * m * n
            /\ indexCount = 6 * m * n
            /\ (m = 2 /\ n = 2) => (Len(mesh.verts) = 9 * 6 /\ Len(mesh.indices) = 24)

\* the sphere of 2 stacks and 2 slices has been built
C2_Built2x2 ==
    /\ pc = "built"
    /\ sphereArgs = <<2, 2>>
    /\ indexCount = 24

\* C3: every index entry of buildSphere(m, n) is at least 0 and below the
\* vertex count (m+1)*(n+1), and the six entries of quad (i, j) are
\* a, b, a+1, b, b+1, a+1 with a = i*(n+1)+j and b = a+(n+1).
C3_SphereIndicesInRange ==
    pc = "built" =>
        LET m == sphereArgs[1]
            n == sphereArgs[2]
        IN  /\ \A k \in 1..Len(mesh.indices) :
                   mesh.indices[k] >= 0 /\ mesh.indices[k] < (m + 1) * (n + 1)
            /\ \A i \in 0..(m - 1), j \in 0..(n - 1) :
                   LET a == i * (n + 1) + j
                       b == a + (n + 1)
                       at == 6 * (i * n + j)
                   IN  SubSeq(mesh.indices, at + 1, at + 6) = <<a, b, a + 1, b, b + 1, a + 1>>

\* a sphere whose last quad reaches the last vertex
C3_LastVertexIndexed ==
    /\ pc = "built"
    /\ sphereArgs = <<3, 4>>
    /\ mesh.indices[Len(mesh.indices) - 1] = 4 * 5 - 1

\* over the masses explored, one mass is below another exactly when its radius is
RadiusIncreasing ==
    \A m1, m2 \in Masses :
        RatLess(m1, m2) <=> RatLess(SchwarzschildRadius(m1), SchwarzschildRadius(m2))

\* C8: from its construction on the body's r_s is 2*G*mass/c^2 of its mass,
\* a larger mass has a larger r_s, and mass, r_s and position stay as the
\* constructor set them through every iteration, draw call and input event.
C8_RadiusIsFunctionOfMass ==
    Constructed =>
        /\ bh.mass = massArg
        /\ bh.position = Vec3(0, 0, 0)
        /\ RatEq(RatMul(bh.r_s, RatMul(c, c)), RatMul(Dec(2, 0), RatMul(G, bh.mass)))
        /\ RadiusIncreasing
        /\ \A m \in Masses : RatEq(m, bh.mass) => RatEq(SchwarzschildRadius(m), bh.r_s)

\* a body between a lighter and a heavier mass, drawn, with a drag under way
C8_BodyDrawnAndDragged ==
    /\ Constructed
    /\ FrameDrawn
    /\ dragging
    /\ yawDeg # yawDeg0
    /\ \E m1, m2 \in Masses : RatLess(m1, bh.mass) /\ RatLess(bh.mass, m2)

\* C5: the loop is left only by the test of the close flag at its top; the
\* flag is set only by a close request or by Escape seen pressed in an
\* iteration; the iteration that sees Escape still computes the view, draws
\* and polls, no iteration begins after it, and glfwTerminate is called once
\* before the exit.
EscapeSeen == \E k \in DOMAIN frameOps : frameOps[k] = "setShouldClose"

C5_LoopLeftOnlyByCloseFlag ==
    /\ [](/\ terminateCalls <= 1
          /\ pc = "done" => terminateCalls = 1 /\ shouldClose /\ exitStatus = 0
          /\ pc = "terminate" => terminateCalls = 0 /\ shouldClose
          /\ EscapeSeen => shouldClose
          /\ EscapeSeen /\ pc # "poll" =>
                 frameOps = <<"processMovement", "setShouldClose", "view", "clear",
                              "draw", "swap", "poll">>)
    /\ [][/\ (pc \in {"loop", "poll"} /\ pc' \notin {"loop", "poll"})
               => pc = "loop" /\ shouldClose /\ pc' = "terminate"
          /\ shouldClose' # shouldClose
               => /\ shouldClose'
                  /\ \/ WindowClose
                     \/ \E d \in Dts, keys \in KeyCombos :
                            "ESCAPE" \in keys /\ Tick(lastTime + d, keys)
          /\ (\E d \in Dts, keys \in KeyCombos : "ESCAPE" \in keys /\ Tick(lastTime + d, keys))
               => /\ view' = computeOrbitView(yawDeg, pitchDeg, target, distanceToTarget)
                  /\ glDraw'.uMVP[2] = view'
                  /\ pc' = "poll"
          /\ EscapeSeen => ~(pc = "loop" /\ pc' = "poll")
          /\ terminateCalls' # terminateCalls => pc = "terminate" /\ pc' = "done"
         ]_vars

\* the run that saw Escape has ended
C5_ExitedAfterEscape ==
    /\ pc = "done"
    /\ EscapeSeen
    /\ terminateCalls = 1

\* C4 (as claimed): an initialization failure is reported to the console and
\* the process exits with a non-zero status, without going on to the shaders,
\* the mesh or the loop.
InitFailed ==
    \/ pc # "glfwInit" /\ ~env.glfw
    \/ pc \notin {"glfwInit", "createWindow"} /\ ~env.window
    \/ pc \notin {"glfwInit", "createWindow", "loadGL"} /\ ~env.gl

C4_InitFailureIsFatal ==
    InitFailed =>
        /\ console # <<>>
        /\ exitStatus > 0
        /\ pc \notin {"makeProgram", "buildSphere", "matrices", "construct", "loop", "poll"}

\* C6 (as claimed): each shader compile failure and each link failure leaves
\* a diagnostic on the console; start-up goes on, makeProgram returns a handle
\* and the frames are drawn with it.
ProgramMade == pc \in {"buildSphere", "matrices", "construct", "loop", "poll", "terminate", "done"}

C6_ShaderFailureIsLogged ==
    ProgramMade =>
        /\ Len(console) >= (IF env.vs THEN 0 ELSE 1) + (IF env.fs THEN 0 ELSE 1)
        /\ ~program.linked => console # <<>>
        /\ program.program = 1
        /\ exitStatus \in {-1, 0}
        /\ FrameDrawn => glDraw.program = program

====
